---- MODULE Spec2Model ----
(***************************************************************************)
(* Model of SpeakerAI: the segmentation policy (SimpleEnergyDiarizer),     *)
(* the feature extractor's speaking rate, name inference, identity         *)
(* matching against the speaker store and profile building.                *)
(*                                                                         *)
(* Numbers: the program computes with Python floats.  Times are integer    *)
(* seconds here, feature values are small integers, and every comparison   *)
(* of quotients is done exactly by cross-multiplication, so the model is   *)
(* the program in exact arithmetic.                                        *)
(***************************************************************************)
EXTENDS Integers, Sequences, FiniteSets, TLC

\* Optional values: None is the empty tuple, a present value v is <<v>>.
None == <<>>
Some(v) == <<v>>
IsNone(o) == o = <<>>
Get(o) == o[1]

(***************************************************************************)
(* Bounds of the model.                                                    *)
(***************************************************************************)
\* longest utterance sequence handed to diarize
MaxUtterances == 4
\* most records in the speaker store when _match_speaker is called on its own
MaxStore == 3
\* most texts handed to extract_features, and the latest time of a span
MaxTexts == 2
\* most turns a transcriber returns in a pipeline run
MaxTurns == 3
MaxTime == 3
\* longest sequence of equal utterances handed to diarize
MaxRepeats == 27

(***************************************************************************)
(* Program constants.                                                      *)
(***************************************************************************)
\* config.MAX_SEGMENT_DURATION (seconds)
MAX_SEGMENT_DURATION == 15
\* DiarizationSegment.confidence default 0.5, in tenths
DefaultConfidence == 5
\* ord("A")
OrdA == 65
\* config.FEATURE_SIMILARITY_THRESHOLD = 0.82 = ThresholdNum / ThresholdDen
ThresholdNum == 82
ThresholdDen == 100

VARIABLES
    \* ---- SimpleEnergyDiarizer.diarize ----
    timestamps,      \* the argument: sequence of <<start, end>>
    max_duration,    \* self.max_duration
    segments,        \* the list being built / returned
    speaker_cycle,   \* next idx the generator over itertools.count() yields
    current_speaker, \* code point of the current label character (0: unbound)
    total_duration,  \* the accumulator
    pos,             \* index of the next utterance of the for loop
    dz_pc,           \* "idle", "call", "loop", "done"
    \* ---- the speaker store and the allow-list ----
    db,              \* rows of table speakers, in rowid order
    team_members,    \* the team_members argument: None or Some(list of names)
    \* ---- SpeakerPipeline._match_speaker called on its own ----
    m_features,      \* profile.features of the profile being matched
    m_result,        \* what _match_speaker returned
    m_pc,            \* "idle", "call", "done"
    \* ---- FeatureExtractor.extract_features ----
    x_texts,         \* transcript_texts
    x_start,         \* start
    x_end,           \* end
    x_result,        \* the FeatureSet returned
    x_pc,            \* "idle", "call", "done"
    \* ---- SpeakerPipeline.process ----
    turns,           \* the SpeakerTurn objects transcribe returned
    turns0,          \* history: turns as transcribe returned them
    grouped,         \* the dict label -> turns, in insertion order
    all_profiles,    \* the list _build_profiles builds
    gi,              \* index of the next group of the for loop
    outputs,         \* the files written so far
    calls,           \* the collaborator calls process has made, in order
    p_exc,           \* the exception that left process: None or Some(record)
    persist,         \* the caller's save_profile / update_profile call, if any
    p_pc,            \* "idle", "call", "loop", "built", "written", "done",
                     \* "raised", "saved", "updated"
    \* ---- SpeakerPipeline._infer_names called on its own ----
    n_texts,         \* the texts of the turns handed over
    n_result,        \* the outcome: None, or Some(Returned(..)) / Some(Raised)
    n_pc             \* "idle", "call", "done"

dzVars == <<timestamps, max_duration, segments, speaker_cycle,
            current_speaker, total_duration, pos, dz_pc>>
storeVars == <<db, team_members>>
mVars == <<m_features, m_result, m_pc>>
xVars == <<x_texts, x_start, x_end, x_result, x_pc>>
pVars == <<turns, turns0, grouped, all_profiles, gi, outputs, calls, p_exc,
           persist, p_pc>>

nVars == <<n_texts, n_result, n_pc>>

vars == <<dzVars, storeVars, mVars, xVars, pVars, nVars>>

(***************************************************************************)
(* Helpers.                                                                *)
(***************************************************************************)
Max(a, b) == IF a >= b THEN a ELSE b
Min(a, b) == IF a <= b THEN a ELSE b

RECURSIVE SeqsUpTo(_, _)
\* all sequences over S of length 0..n
SeqsUpTo(S, n) ==
    IF n = 0 THEN { <<>> }
    ELSE LET shorter == SeqsUpTo(S, n - 1)
         IN  shorter \cup { Append(s, x) : s \in { t \in shorter : Len(t) = n - 1 }, x \in S }

(***************************************************************************)
(* Python str operations.  A str is a sequence of one-character strings.   *)
(***************************************************************************)
UpperChars == <<"A","B","C","D","E","F","G","H","I","J","K","L","M",
                "N","O","P","Q","R","S","T","U","V","W","X","Y","Z">>
LowerChars == <<"a","b","c","d","e","f","g","h","i","j","k","l","m",
                "n","o","p","q","r","s","t","u","v","w","x","y","z">>
Whitespace == { " ", "\t", "\n" }

IsUpper(c) == \E i \in 1..26 : UpperChars[i] = c
IsLower(c) == \E i \in 1..26 : LowerChars[i] = c
\* str.lower() on one character
LowerChar(c) ==
    IF IsUpper(c) THEN LowerChars[CHOOSE i \in 1..26 : UpperChars[i] = c] ELSE c
\* str.upper() on one character
UpperChar(c) ==
    IF IsLower(c) THEN UpperChars[CHOOSE i \in 1..26 : LowerChars[i] = c] ELSE c

\* str.lower()
StrLower(s) == [i \in 1..Len(s) |-> LowerChar(s[i])]

\* s[i:], positions counted from 1
From(s, i) == IF i > Len(s) THEN <<>> ELSE SubSeq(s, i, Len(s))

\* kw occurs in s at position i
OccursAt(s, kw, i) ==
    /\ i >= 1
    /\ i + Len(kw) - 1 <= Len(s)
    /\ SubSeq(s, i, i + Len(kw) - 1) = kw

\* kw in s
StrContains(s, kw) == \E i \in 1..(Len(s) + 1) : OccursAt(s, kw, i)

\* s.find(kw): position of the first occurrence (the caller checks kw in s)
StrFind(s, kw) ==
    CHOOSE i \in 1..(Len(s) + 1) :
        /\ OccursAt(s, kw, i)
        /\ \A j \in 1..(i - 1) : ~OccursAt(s, kw, j)

\* s.split(kw, 1)[1]: what follows the first occurrence of kw
AfterFirst(s, kw) == From(s, StrFind(s, kw) + Len(kw))

RECURSIVE LStrip(_)
LStrip(s) ==
    IF s # <<>> /\ Head(s) \in Whitespace THEN LStrip(Tail(s)) ELSE s

RECURSIVE RStrip(_)
RStrip(s) ==
    IF s # <<>> /\ s[Len(s)] \in Whitespace
    THEN RStrip(SubSeq(s, 1, Len(s) - 1)) ELSE s

\* str.strip()
StrStrip(s) == RStrip(LStrip(s))

RECURSIVE SplitFrom(_, _, _)
\* the tokens of s[i:], cur being the token collected so far
SplitFrom(s, i, cur) ==
    IF i > Len(s) THEN (IF cur = <<>> THEN <<>> ELSE <<cur>>)
    ELSE IF s[i] \in Whitespace
         THEN (IF cur = <<>> THEN SplitFrom(s, i + 1, <<>>)
               ELSE <<cur>> \o SplitFrom(s, i + 1, <<>>))
         ELSE SplitFrom(s, i + 1, Append(cur, s[i]))

\* str.split(): the whitespace-delimited tokens
StrSplit(s) == SplitFrom(s, 1, <<>>)

RECURSIVE TitleFrom(_, _, _)
\* str.title() from position i on; prevCased: the previous character is a letter
TitleFrom(s, i, prevCased) ==
    IF i > Len(s) THEN <<>>
    ELSE LET c == s[i]
         IN  IF IsLower(c) \/ IsUpper(c)
             THEN <<IF prevCased THEN LowerChar(c) ELSE UpperChar(c)>>
                  \o TitleFrom(s, i + 1, TRUE)
             ELSE <<c>> \o TitleFrom(s, i + 1, FALSE)

\* str.title()
StrTitle(s) == TitleFrom(s, 1, FALSE)

\* x in list
InList(x, list) == \E i \in 1..Len(list) : list[i] = x

(***************************************************************************)
(* SpeakerPipeline._infer_names                                            *)
(***************************************************************************)
KwIAm      == <<"i"," ","a","m">>
KwMyNameIs == <<"m","y"," ","n","a","m","e"," ","i","s">>
KwThisIs   == <<"t","h","i","s"," ","i","s">>
\* keywords = ["i am", "my name is", "this is"]
Keywords == <<KwIAm, KwMyNameIs, KwThisIs>>

\* the result of a call: a returned value, or an exception raised
Returned(v) == [raised |-> FALSE, value |-> v]
Raised == [raised |-> TRUE, value |-> <<>>]

\* the body of "for keyword in keywords" for one keyword, on the list
\* inferred built so far
InferKeyword(lower, keyword, inferred) ==
    IF ~StrContains(lower, keyword) THEN Returned(inferred)
    ELSE LET segment == StrStrip(AfterFirst(lower, keyword))
             tokens  == StrSplit(segment)
         IN  IF tokens = <<>> THEN Raised   \* segment.split()[0]: IndexError
             ELSE LET name == tokens[1]
                  IN  IF name # <<>> /\ ~InList(name, inferred)
                      THEN Returned(Append(inferred, StrTitle(name)))
                      ELSE Returned(inferred)

\* mutant: only the first phrase present in the turn is used
InferKeywordsFirstOnly(lower, k, inferred) ==
    LET present == { j \in k..Len(Keywords) : StrContains(lower, Keywords[j]) }
    IN  IF present = {} THEN Returned(inferred)
        ELSE InferKeyword(lower,
                          Keywords[CHOOSE j \in present : \A i \in present : j <= i],
                          inferred)

RECURSIVE InferKeywords(_, _, _)
\* the keywords from index k on, for one turn
InferKeywords(lower, k, inferred) ==
    IF k > Len(Keywords) THEN Returned(inferred)
    ELSE LET r == InferKeyword(lower, Keywords[k], inferred)
         IN  IF r.raised THEN Raised
             ELSE InferKeywords(lower, k + 1, r.value)

RECURSIVE InferTurns(_, _, _)
\* the turns from index t on
InferTurns(texts, t, inferred) ==
    IF t > Len(texts) THEN Returned(inferred)
    ELSE LET r == InferKeywords(StrLower(texts[t]), 1, inferred)
         IN  IF r.raised THEN Raised
             ELSE InferTurns(texts, t + 1, r.value)

\* _infer_names(turns), on the turns' texts
InferNames(texts) == InferTurns(texts, 1, <<>>)

(***************************************************************************)
(* Feature maps, SpeakerPipeline._vectorize and _cosine_similarity         *)
(***************************************************************************)
\* the keys of FeatureSet.to_dict() in sorted() order
SortedFeatureKeys ==
    <<"energy_mean", "energy_std", "mean_pitch", "pitch_std",
      "speaking_rate", "spectral_centroid_mean", "spectral_centroid_std">>

\* FeatureSet(mean_pitch, pitch_std, speaking_rate, energy_mean, energy_std,
\* spectral_centroid_mean, spectral_centroid_std).to_dict()
FeatureSet(mp, ps, sr, em, es, scm, scs) ==
    [mean_pitch |-> mp, pitch_std |-> ps, speaking_rate |-> sr,
     energy_mean |-> em, energy_std |-> es,
     spectral_centroid_mean |-> scm, spectral_centroid_std |-> scs]

\* feature maps the extractor returns / the store holds: the zero vector,
\* parallel vectors, vectors on both sides of the threshold
FeatureDicts ==
    { FeatureSet(0, 0, 0, 0, 0, 0, 0),
      FeatureSet(2, 0, 0, 1, 0, 0, 0),
      FeatureSet(4, 0, 0, 2, 0, 0, 0),
      FeatureSet(1, 0, 0, 2, 0, 0, 0),
      FeatureSet(1, 0, 0, 1, 0, 0, 0),
      FeatureSet(3, 0, 1, 1, 0, 0, 0) }

\* the feature maps of the profiles matched against the store
ProfileFeatureDicts ==
    { FeatureSet(0, 0, 0, 0, 0, 0, 0),
      FeatureSet(2, 0, 0, 1, 0, 0, 0),
      FeatureSet(1, 0, 0, 1, 0, 0, 0),
      FeatureSet(3, 0, 1, 1, 0, 0, 0) }

\* _vectorize: the values in the order of the sorted keys
Vectorize(feature_dict) ==
    LET keys == SelectSeq(SortedFeatureKeys, LAMBDA k : k \in DOMAIN feature_dict)
    IN  [i \in 1..Len(keys) |-> feature_dict[keys[i]]]

RECURSIVE DotUpTo(_, _, _)
\* sum(x * y for x, y in zip(a, b)), over the first n positions
DotUpTo(a, b, n) ==
    IF n = 0 THEN 0 ELSE DotUpTo(a, b, n - 1) + a[n] * b[n]

Dot(a, b) == DotUpTo(a, b, Min(Len(a), Len(b)))

\* a similarity dot / sqrt(nn), kept exact as the pair (dot, nn), nn > 0
Score(dot, nn) == [dot |-> dot, nn |-> nn]
ZeroScore == Score(0, 1)

\* _cosine_similarity: 0.0 if a norm is 0, else dot / (norm_a * norm_b)
CosineSimilarity(a, b) ==
    LET na == Dot(a, a)
        nb == Dot(b, b)
    IN  IF na = 0 \/ nb = 0 THEN ZeroScore ELSE Score(Dot(a, b), na * nb)

\* s > t for two similarities
ScoreGT(s, t) ==
    IF s.dot > 0 /\ t.dot > 0 THEN s.dot * s.dot * t.nn > t.dot * t.dot * s.nn
    ELSE IF s.dot < 0 /\ t.dot < 0 THEN s.dot * s.dot * t.nn < t.dot * t.dot * s.nn
    ELSE s.dot > t.dot

\* s = t for two similarities
ScoreEQ(s, t) == ~ScoreGT(s, t) /\ ~ScoreGT(t, s)

\* s >= config.FEATURE_SIMILARITY_THRESHOLD
MeetsThreshold(s) ==
    /\ s.dot > 0
    /\ s.dot * s.dot * ThresholdDen * ThresholdDen
          >= ThresholdNum * ThresholdNum * s.nn

(***************************************************************************)
(* SpeakerDatabase.get_all_speakers and SpeakerPipeline._match_speaker     *)
(***************************************************************************)
Names == { "al", "bo" }

\* a row of table speakers as get_all_speakers returns it; the stats and
\* psychometrics columns, which _match_speaker discards, are left out
SpeakerRow(id, name, feature_vector) ==
    [id |-> id, name |-> name, feature_vector |-> feature_vector]

\* SELECT ... FROM speakers: the rows in rowid order
GetAllSpeakers(store) == store

\* stores of up to n rows; ids are the AUTOINCREMENT rowids 1, 2, ...
Stores(n) ==
    { [i \in 1..Len(q) |-> SpeakerRow(i, q[i][1], q[i][2])] :
        q \in SeqsUpTo(Names \X FeatureDicts, n) }

\* values of the team_members argument
Teams == { None, Some(<<>>), Some(<<"al">>), Some(<<"cy", "bo">>) }

\* mutant: no candidate is ever skipped
SkipNever(team, name) == FALSE

\* mutant: the members of the list are skipped instead of the others
SkipInverted(team, name) ==
    /\ ~IsNone(team)
    /\ Get(team) # <<>>
    /\ InList(name, Get(team))

\* if team_members and name not in team_members: continue
SkipCandidate(team, name) ==
    /\ ~IsNone(team)
    /\ Get(team) # <<>>
    /\ ~InList(name, Get(team))

\* mutant: ties replace the running best
AcceptTies(score, best_score) ==
    ~ScoreGT(best_score, score) /\ MeetsThreshold(score)

\* if score > best_score and score >= config.FEATURE_SIMILARITY_THRESHOLD
Accept(score, best_score) ==
    ScoreGT(score, best_score) /\ MeetsThreshold(score)

RECURSIVE MatchLoop(_, _, _, _, _, _)
\* the for loop over known_speakers from index i on
MatchLoop(known, i, vector, team, best_score, best_match) ==
    IF i > Len(known) THEN best_match
    ELSE LET row == known[i]
         IN  IF SkipCandidate(team, row.name)
             THEN MatchLoop(known, i + 1, vector, team, best_score, best_match)
             ELSE LET score == CosineSimilarity(vector, Vectorize(row.feature_vector))
                  IN  IF Accept(score, best_score)
                      THEN MatchLoop(known, i + 1, vector, team, score,
                                     Some([speaker_id |-> row.id,
                                           speaker_name |-> row.name,
                                           score |-> score]))
                      ELSE MatchLoop(known, i + 1, vector, team,
                                     best_score, best_match)

\* _match_speaker(profile, team_members), on profile.features
MatchSpeaker(store, features, team) ==
    LET known_speakers == GetAllSpeakers(store)
    IN  IF known_speakers = <<>> THEN None
        ELSE MatchLoop(known_speakers, 1, Vectorize(features), team,
                       ZeroScore, None)

MatchInit ==
    /\ db \in Stores(MaxStore)
    /\ team_members \in Teams
    /\ m_features \in { Some(f) : f \in ProfileFeatureDicts }
    /\ m_result = None
    /\ m_pc = "call"
    /\ timestamps = <<>> /\ max_duration = MAX_SEGMENT_DURATION
    /\ segments = <<>> /\ speaker_cycle = 0 /\ current_speaker = 0
    /\ total_duration = 0 /\ pos = 1 /\ dz_pc = "idle"
    /\ x_texts = <<>> /\ x_start = 0 /\ x_end = 0 /\ x_result = None
    /\ x_pc = "idle"
    /\ turns = <<>> /\ turns0 = <<>> /\ grouped = <<>> /\ all_profiles = <<>>
    /\ gi = 1 /\ outputs = <<>> /\ p_pc = "idle"
    /\ calls = <<>> /\ p_exc = None /\ persist = None
    /\ n_texts = <<>> /\ n_result = None /\ n_pc = "idle"

\* one call of _match_speaker
MatchCall ==
    /\ m_pc = "call"
    /\ m_result' = MatchSpeaker(db, Get(m_features), team_members)
    /\ m_pc' = "done"
    /\ UNCHANGED <<m_features, storeVars, dzVars, xVars, pVars, nVars>>

MatchNext == MatchCall

SpecMatch == MatchInit /\ [][MatchNext]_vars

(***************************************************************************)
(* Transcript texts                                                        *)
(***************************************************************************)
\* "My name is Alice"
TextMyNameIsAlice ==
    <<"M","y"," ","n","a","m","e"," ","i","s"," ","A","l","i","c","e">>
\* "Project update"
TextProjectUpdate ==
    <<"P","r","o","j","e","c","t"," ","u","p","d","a","t","e">>
\* "We are happy!"
TextWeAreHappy ==
    <<"W","e"," ","a","r","e"," ","h","a","p","p","y","!">>
\* "i am alice"
TextIAmAlice ==
    <<"i"," ","a","m"," ","a","l","i","c","e">>
\* "I am Al this is Bo"
TextIAmAlThisIsBo ==
    <<"I"," ","a","m"," ","A","l"," ","t","h","i","s"," ","i","s"," ","B","o">>
\* "so this is " (nothing but whitespace follows the phrase)
TextThisIs ==
    <<"s","o"," ","t","h","i","s"," ","i","s"," ">>

\* "this is cy my name is al i am al"
TextAllThree ==
    <<"t","h","i","s"," ","i","s"," ","c","y"," ","m","y"," ","n","a","m","e"," ","i","s"," ","a","l"," ","i"," ","a","m"," ","a","l">>
\* "i am 7 this is 7" (the token is its own title-cased form)
TextDigit ==
    <<"i"," ","a","m"," ","7"," ","t","h","i","s"," ","i","s"," ","7">>

(***************************************************************************)
(* _infer_names called on the texts of a speaker's turns                   *)
(***************************************************************************)
\* the texts a turn handed to _infer_names may carry
InferTexts ==
    { TextMyNameIsAlice, TextProjectUpdate, TextIAmAlice, TextIAmAlThisIsBo,
      TextThisIs, TextAllThree, TextDigit }

InferInit ==
    /\ n_texts \in SeqsUpTo(InferTexts, MaxTurns)
    /\ n_result = None
    /\ n_pc = "call"
    /\ timestamps = <<>> /\ max_duration = MAX_SEGMENT_DURATION
    /\ segments = <<>> /\ speaker_cycle = 0 /\ current_speaker = 0
    /\ total_duration = 0 /\ pos = 1 /\ dz_pc = "idle"
    /\ db = <<>> /\ team_members = None
    /\ m_features = None /\ m_result = None /\ m_pc = "idle"
    /\ x_texts = <<>> /\ x_start = 0 /\ x_end = 0 /\ x_result = None
    /\ x_pc = "idle"
    /\ turns = <<>> /\ turns0 = <<>> /\ grouped = <<>> /\ all_profiles = <<>>
    /\ gi = 1 /\ outputs = <<>> /\ p_pc = "idle"
    /\ calls = <<>> /\ p_exc = None /\ persist = None

\* inferred = _infer_names(turns)
InferCall ==
    /\ n_pc = "call"
    /\ n_result' = Some(InferNames(n_texts))
    /\ n_pc' = "done"
    /\ UNCHANGED <<n_texts, dzVars, storeVars, mVars, xVars, pVars>>

InferNext == InferCall

SpecInfer == InferInit /\ [][InferNext]_vars

\* the phrases present in a text, in the priority order of the keywords
PhrasesIn(text) ==
    SelectSeq(Keywords, LAMBDA kw : StrContains(StrLower(text), kw))

\* the lower-case first token after the first occurrence of a phrase
PhraseToken(text, kw) ==
    StrSplit(StrStrip(AfterFirst(StrLower(text), kw)))[1]

\* the tokens the phrases present in a text introduce, in priority order
TokensOfText(text) ==
    LET present == PhrasesIn(text)
    IN  [i \in 1..Len(present) |-> PhraseToken(text, present[i])]

RECURSIVE CandidateTokens(_, _)
\* the tokens the first n texts introduce, turn by turn
CandidateTokens(texts, n) ==
    IF n = 0 THEN <<>>
    ELSE CandidateTokens(texts, n - 1) \o TokensOfText(texts[n])

RECURSIVE IsSubseq(_, _)
\* a is obtained from b by leaving out entries
IsSubseq(a, b) ==
    IF a = <<>> THEN TRUE
    ELSE IF b = <<>> THEN FALSE
    ELSE IF Head(a) = Head(b) THEN IsSubseq(Tail(a), Tail(b))
    ELSE IsSubseq(a, Tail(b))

\* the call has returned a list of names
InferReturned == n_pc = "done" /\ ~Get(n_result).raised

\* C13 as stated: for a turn whose text contains more than one of the
\* phrases, only the phrase first in the priority order (i am, my name is,
\* this is) contributes a name, so one turn adds at most one name.
C13_FirstPhraseOnly ==
    InferReturned =>
        LET names == Get(n_result).value
        IN  /\ Len(names) <= Len(n_texts)
            /\ (Len(n_texts) = 1 /\ Len(PhrasesIn(n_texts[1])) > 1) =>
                  names = <<StrTitle(PhraseToken(n_texts[1],
                                                 PhrasesIn(n_texts[1])[1]))>>

\* C13 amended: for a turn whose text contains more than one of the phrases
\* every phrase present contributes: the phrases are taken in the fixed
\* priority order (i am, my name is, this is) and each adds the title-cased
\* first token after its first occurrence unless that token is already an
\* entry of the list, so one turn adds at most one name per phrase.
\* The list returned is, in turn order and within a turn in priority order,
\* a selection of the title-cased tokens, and a token is left out only if
\* it is already an entry.
C13_EachPhraseContributes ==
    InferReturned =>
        LET names  == Get(n_result).value
            tokens == CandidateTokens(n_texts, Len(n_texts))
        IN  /\ Len(names) <= Len(tokens)
            /\ IsSubseq(names, [i \in 1..Len(tokens) |-> StrTitle(tokens[i])])
            /\ \A i \in 1..Len(tokens) :
                  InList(StrTitle(tokens[i]), names) \/ InList(tokens[i], names)

\* C13 witness: the single turn "I am Al this is Bo" yields the names Al and
\* Bo, in this order
C13_Witness ==
    /\ InferReturned
    /\ n_texts = <<TextIAmAlThisIsBo>>
    /\ Get(n_result).value = << <<"A", "l">>, <<"B", "o">> >>

(***************************************************************************)
(* Joining and counting the words of texts                                 *)
(***************************************************************************)
\* " ".join(texts)
RECURSIVE JoinFrom(_, _)
JoinFrom(texts, i) ==
    IF i > Len(texts) THEN <<>>
    ELSE IF i = Len(texts) THEN texts[i]
    ELSE texts[i] \o <<" ">> \o JoinFrom(texts, i + 1)

StrJoin(texts) == JoinFrom(texts, 1)

RECURSIVE SumSeq(_, _)
\* sum of the first n entries of a sequence of numbers
SumSeq(q, n) == IF n = 0 THEN 0 ELSE SumSeq(q, n - 1) + q[n]

\* len(text.split())
WordCount(text) == Len(StrSplit(text))

\* sum(len(text.split()) for text in texts)
TotalWords(texts) ==
    SumSeq([i \in 1..Len(texts) |-> WordCount(texts[i])], Len(texts))

(***************************************************************************)
(* FeatureExtractor: compute_speaking_rate and extract_features            *)
(***************************************************************************)
\* a quotient n / d kept exact, d > 0
Quot(n, d) == [n |-> n, d |-> d]
IsZero(q) == q.n = 0

\* compute_speaking_rate: 0.0 if duration <= 0, else
\* total_words / (duration / 60.0)
ComputeSpeakingRate(transcript_texts, duration) ==
    IF duration <= 0 THEN Quot(0, 1)
    ELSE Quot(TotalWords(transcript_texts) * 60, duration)

\* mean and standard deviation of the pitch, energy and spectral centroid
\* samples librosa yields for the window: <<mean_pitch, pitch_std,
\* energy_mean, energy_std, spectral_centroid_mean, spectral_centroid_std>>
AcousticStats == { <<0, 0, 0, 0, 0, 0>>, <<200, 5, 1, 0, 1000, 50>> }

\* extract_features, given the statistics of the window's samples
ExtractFeatures(acoustic, transcript_texts, start, end) ==
    FeatureSet(acoustic[1], acoustic[2],
               ComputeSpeakingRate(transcript_texts, Max(1, end - start)),
               acoustic[3], acoustic[4], acoustic[5], acoustic[6])

\* the texts handed to extract_features
ExtractTexts == { TextProjectUpdate, TextWeAreHappy, <<>> }

ExtractInit ==
    /\ x_texts \in SeqsUpTo(ExtractTexts, MaxTexts)
    /\ x_start \in 0..MaxTime
    /\ x_end \in 0..MaxTime
    /\ x_result = None
    /\ x_pc = "call"
    /\ timestamps = <<>> /\ max_duration = MAX_SEGMENT_DURATION
    /\ segments = <<>> /\ speaker_cycle = 0 /\ current_speaker = 0
    /\ total_duration = 0 /\ pos = 1 /\ dz_pc = "idle"
    /\ db = <<>> /\ team_members = None
    /\ m_features = None /\ m_result = None /\ m_pc = "idle"
    /\ turns = <<>> /\ turns0 = <<>> /\ grouped = <<>> /\ all_profiles = <<>>
    /\ gi = 1 /\ outputs = <<>> /\ p_pc = "idle"
    /\ calls = <<>> /\ p_exc = None /\ persist = None
    /\ n_texts = <<>> /\ n_result = None /\ n_pc = "idle"

\* one call of extract_features
ExtractCall ==
    /\ x_pc = "call"
    /\ \E acoustic \in AcousticStats :
          x_result' = Some(ExtractFeatures(acoustic, x_texts, x_start, x_end))
    /\ x_pc' = "done"
    /\ UNCHANGED <<x_texts, x_start, x_end, dzVars, storeVars, mVars, pVars, nVars>>

ExtractNext == ExtractCall

SpecExtract == ExtractInit /\ [][ExtractNext]_vars

(***************************************************************************)
(* PsychometricAnalyzer.analyze, the sentiment analyzer being unavailable  *)
(***************************************************************************)
\* BASIC_EMOTION_KEYWORDS
BasicEmotionKeywords ==
    [ excited |-> { <<"e","x","c","i","t","e","d">>,
          <<"t","h","r","i","l","l","e","d">>,
          <<"p","u","m","p","e","d">>,
          <<"e","n","e","r","g","e","t","i","c">> },
      angry |-> { <<"a","n","g","r","y">>,
          <<"f","u","r","i","o","u","s">>,
          <<"f","r","u","s","t","r","a","t","e","d">>,
          <<"m","a","d">> },
      happy |-> { <<"h","a","p","p","y">>,
          <<"g","l","a","d">>,
          <<"p","l","e","a","s","e","d">>,
          <<"d","e","l","i","g","h","t","e","d">> },
      sad |-> { <<"s","a","d">>,
          <<"u","p","s","e","t">>,
          <<"d","o","w","n">>,
          <<"u","n","h","a","p","p","y">> },
      fun |-> { <<"f","u","n">>,
          <<"e","n","j","o","y">>,
          <<"l","a","u","g","h">>,
          <<"j","o","k","e">>,
          <<"h","u","m","o","r">> } ]

PunctuationChars == { ".", ",", "!", "?" }

RECURSIVE LStripChars(_, _)
LStripChars(s, chars) ==
    IF s # <<>> /\ Head(s) \in chars THEN LStripChars(Tail(s), chars) ELSE s

RECURSIVE RStripChars(_, _)
RStripChars(s, chars) ==
    IF s # <<>> /\ s[Len(s)] \in chars
    THEN RStripChars(SubSeq(s, 1, Len(s) - 1), chars) ELSE s

\* token.strip(".,!?").lower()
NormalToken(token) ==
    StrLower(RStripChars(LStripChars(token, PunctuationChars), PunctuationChars))

\* _keyword_scores: per metric, the number of tokens that are one of its keywords
KeywordScores(combined_text) ==
    LET tokens == StrSplit(combined_text)
    IN  [metric \in DOMAIN BasicEmotionKeywords |->
            Cardinality({ i \in 1..Len(tokens) :
                            NormalToken(tokens[i]) \in BasicEmotionKeywords[metric] })]

\* analyze: the keyword counts, valence 0.0, and _normalize adding
\* energy_mean / 10.0 to arousal and mean_pitch / 400.0 to dominance
Analyze(texts, acoustic_stats) ==
    LET counts == KeywordScores(StrJoin(texts))
    IN  [excited |-> counts.excited, angry |-> counts.angry,
         happy |-> counts.happy, sad |-> counts.sad, fun |-> counts.fun,
         valence |-> 0,
         arousal |-> Quot(acoustic_stats.energy_mean, 10),
         dominance |-> Quot(acoustic_stats.mean_pitch, 400)]

(***************************************************************************)
(* SpeakerPipeline.process and _build_profiles                             *)
(***************************************************************************)
\* SpeakerTurn(speaker_label, start, end, text); speaker_name and
\* confidence default to None
SpeakerTurn(speaker_label, start, end, text) ==
    [speaker_label |-> speaker_label, start |-> start, end |-> end,
     text |-> text, speaker_name |-> None, confidence |-> None]

\* SpeakerTurn.duration
TurnDuration(turn) == Max(0, turn.end - turn.start)

\* the turns a transcriber may return
TurnCandidates ==
    { SpeakerTurn(OrdA, 0, 5, TextMyNameIsAlice),
      SpeakerTurn(OrdA + 1, 5, 9, TextProjectUpdate),
      SpeakerTurn(OrdA, 9, 12, TextWeAreHappy),
      SpeakerTurn(OrdA, 12, 12, TextIAmAlice),
      SpeakerTurn(OrdA + 1, 12, 14, TextIAmAlThisIsBo),
      SpeakerTurn(OrdA + 1, 14, 15, TextThisIs) }

\* the feature maps the feature extractor returns in a pipeline run
PipelineFeatures ==
    { FeatureSet(2, 0, 0, 1, 0, 0, 0), FeatureSet(1, 0, 0, 1, 0, 0, 0) }

\* the team_members arguments of a pipeline run
PipelineTeams == { None, Some(<<>>), Some(<<"bo">>) }

RECURSIVE GroupFrom(_, _, _)
\* grouped[turn.speaker_label].append(turn) for the turns from index i on;
\* a group is its label and the indexes of its turns, groups in the order
\* their labels were first inserted
GroupFrom(ts, i, acc) ==
    IF i > Len(ts) THEN acc
    ELSE LET label == ts[i].speaker_label
             at    == { k \in 1..Len(acc) : acc[k].label = label }
         IN  IF at = {}
             THEN GroupFrom(ts, i + 1,
                            Append(acc, [label |-> label, idxs |-> <<i>>]))
             ELSE LET k == CHOOSE k \in at : TRUE
                  IN  GroupFrom(ts, i + 1,
                                [acc EXCEPT ![k].idxs = Append(@, i)])

\* mutant: a new group is opened whenever the label differs from the
\* previous turn's
GroupByRuns(ts) ==
    LET F[i \in 0..Len(ts)] ==
            IF i = 0 THEN <<>>
            ELSE IF i > 1 /\ ts[i].speaker_label = ts[i - 1].speaker_label
                 THEN [F[i - 1] EXCEPT ![Len(F[i - 1])].idxs = Append(@, i)]
                 ELSE Append(F[i - 1], [label |-> ts[i].speaker_label, idxs |-> <<i>>])
    IN  F[Len(ts)]

\* the defaultdict(list) filled by the first loop of _build_profiles
GroupTurns(ts) == GroupFrom(ts, 1, <<>>)

\* the stats dict of a group of turns
Stats(speaker_turns) ==
    LET n         == Len(speaker_turns)
        durations == [i \in 1..n |-> TurnDuration(speaker_turns[i])]
        total     == SumSeq(durations, n)
    IN  [total_duration |-> total,
         turn_count |-> n,
         avg_turn_duration |-> IF n > 0 THEN Quot(total, n) ELSE Quot(0, 1),
         word_count |-> TotalWords([i \in 1..n |-> speaker_turns[i].text])]

\* SpeakerProfile(...); matched_speaker_id and matched_speaker_name default
\* to None
SpeakerProfile(speaker_label, features, stats, psychometrics, inferred_names) ==
    [speaker_label |-> speaker_label, features |-> features, stats |-> stats,
     psychometrics |-> psychometrics, inferred_names |-> inferred_names,
     matched_speaker_id |-> None, matched_speaker_name |-> None]

\* if match: profile.matched_speaker_id = ...; profile.matched_speaker_name = ...
ApplyMatch(profile, match) ==
    IF IsNone(match) THEN profile
    ELSE [profile EXCEPT !.matched_speaker_id = Some(Get(match).speaker_id),
                         !.matched_speaker_name = Some(Get(match).speaker_name)]

\* mutant: only the first turn of the group gets the name
NameTurnsFirstOnly(ts, idxs, match) ==
    IF IsNone(match) THEN ts
    ELSE [ts EXCEPT ![idxs[1]].speaker_name = Some(Get(match).speaker_name)]

\* if match: for turn in speaker_turns: turn.speaker_name = matched name
NameTurns(ts, idxs, match) ==
    IF IsNone(match) THEN ts
    ELSE [i \in 1..Len(ts) |->
            IF InList(i, idxs)
            THEN [ts[i] EXCEPT !.speaker_name = Some(Get(match).speaker_name)]
            ELSE ts[i]]

(***************************************************************************)
(* SpeakerDatabase.add_speaker / update_speaker and the persistence entry  *)
(* points SpeakerPipeline.save_profile / update_profile                    *)
(***************************************************************************)
\* json.dumps of a flat dict: its key/value pairs
JsonDumps(d) == { <<k, d[k]>> : k \in DOMAIN d }

\* json.loads of such a text: the dict of its pairs
JsonLoads(t) ==
    [k \in { kv[1] : kv \in t } |-> (CHOOSE kv \in t : kv[1] = k)[2]]

\* a row of table speakers with the columns the program reads or writes,
\* the three JSON columns as get_all_speakers decodes them
SpeakerRecord(id, name, description, feature_vector, stats, psychometrics) ==
    [id |-> id, name |-> name, description |-> description,
     feature_vector |-> feature_vector, stats |-> stats,
     psychometrics |-> psychometrics]

\* cursor.lastrowid of an INSERT: ids are AUTOINCREMENT rowids and no row is
\* ever deleted
NextRowId(store) == Len(store) + 1

\* mutant: the stats and psychometrics payloads are exchanged
AddSpeakerSwapped(store, name, feature_vector, stats, psychometrics, description) ==
    Append(store,
           SpeakerRecord(NextRowId(store), name, description,
                         JsonLoads(JsonDumps(feature_vector)),
                         JsonLoads(JsonDumps(psychometrics)),
                         JsonLoads(JsonDumps(stats))))

\* add_speaker: INSERT INTO speakers (name, description, feature_vector,
\* stats, psychometrics)
AddSpeaker(store, name, feature_vector, stats, psychometrics, description) ==
    Append(store,
           SpeakerRecord(NextRowId(store), name, description,
                         JsonLoads(JsonDumps(feature_vector)),
                         JsonLoads(JsonDumps(stats)),
                         JsonLoads(JsonDumps(psychometrics))))

\* update_speaker: UPDATE speakers SET feature_vector, stats, psychometrics,
\* description WHERE id = speaker_id
UpdateSpeaker(store, speaker_id, feature_vector, stats, psychometrics, description) ==
    [i \in 1..Len(store) |->
        IF store[i].id = speaker_id
        THEN [store[i] EXCEPT !.feature_vector = JsonLoads(JsonDumps(feature_vector)),
                              !.stats = JsonLoads(JsonDumps(stats)),
                              !.psychometrics = JsonLoads(JsonDumps(psychometrics)),
                              !.description = description]
        ELSE store[i]]

\* a record registered earlier from a profile of one turn
RegisteredRecord(id, name, feature_vector) ==
    [AddSpeaker(<<>>, name, feature_vector,
                Stats(<<SpeakerTurn(OrdA, 0, 5, TextProjectUpdate)>>),
                Analyze(<<TextProjectUpdate>>, feature_vector),
                None)[1] EXCEPT !.id = id]

\* the contents of the store at the start of a pipeline run
PipelineStores ==
    { <<>>,
      <<RegisteredRecord(1, "al", FeatureSet(2, 0, 0, 1, 0, 0, 0)),
        RegisteredRecord(2, "bo", FeatureSet(4, 0, 0, 2, 0, 0, 0))>>,
      <<RegisteredRecord(1, "al", FeatureSet(1, 0, 0, 2, 0, 0, 0)),
        RegisteredRecord(2, "bo", FeatureSet(6, 0, 0, 1, 0, 0, 0))>> }

\* the arguments of the caller's persistence call
PersistCall(op, name, speaker_id, profile) ==
    [op |-> op, name |-> name, speaker_id |-> speaker_id, profile |-> profile]

(***************************************************************************)
(* Collaborator calls and their failures                                   *)
(***************************************************************************)
\* a call of a collaborator made while the profile of a label is built
Call(op, label) == [op |-> op, label |-> label]

\* mutant: the store is read before the features are aggregated
ProfileCallsReadFirst(label) ==
    <<Call("get_all_speakers", label), Call("extract_features", label),
      Call("analyze", label)>>

\* the collaborator calls of one iteration of the loop of _build_profiles,
\* in the order of the code: extract_features, analyze, and get_all_speakers
\* inside _match_speaker
ProfileCalls(label) ==
    <<Call("extract_features", label), Call("analyze", label),
      Call("get_all_speakers", label)>>

\* which collaborator call of an iteration raises, if any
Failures == { "none", "extract_features", "analyze", "get_all_speakers" }

\* an exception leaving process: its kind, and the call and label it came from
Exception(exception, op, label) ==
    [exception |-> exception, op |-> op, label |-> label]

\* mutant: the exception is caught and the loop goes on
ExceptionSwallowed == "loop"

\* neither process nor _build_profiles has a try statement: an exception
\* raised inside the loop leaves process
ExceptionTarget == "raised"

ProcessInit ==
    /\ turns \in SeqsUpTo(TurnCandidates, MaxTurns)
    /\ turns0 = turns
    /\ db \in PipelineStores
    /\ team_members \in PipelineTeams
    /\ grouped = <<>>
    /\ all_profiles = <<>>
    /\ gi = 1
    /\ outputs = <<>>
    /\ calls = <<>>
    /\ p_exc = None
    /\ persist = None
    /\ p_pc = "call"
    /\ timestamps = <<>> /\ max_duration = MAX_SEGMENT_DURATION
    /\ segments = <<>> /\ speaker_cycle = 0 /\ current_speaker = 0
    /\ total_duration = 0 /\ pos = 1 /\ dz_pc = "idle"
    /\ m_features = None /\ m_result = None /\ m_pc = "idle"
    /\ x_texts = <<>> /\ x_start = 0 /\ x_end = 0 /\ x_result = None
    /\ x_pc = "idle"
    /\ n_texts = <<>> /\ n_result = None /\ n_pc = "idle"

\* _build_profiles: the grouping loop
BuildGroups ==
    /\ p_pc = "call"
    /\ grouped' = GroupTurns(turns)
    /\ all_profiles' = <<>>
    /\ gi' = 1
    /\ p_pc' = "loop"
    /\ UNCHANGED <<turns, turns0, outputs, calls, p_exc, persist,
                   dzVars, storeVars, mVars, xVars, nVars>>

\* _build_profiles: one iteration of "for speaker_label, speaker_turns in
\* grouped.items()"; features is what extract_features returned, failing the
\* collaborator call that raises in this iteration
BuildProfile ==
    /\ p_pc = "loop"
    /\ gi <= Len(grouped)
    /\ \E features \in PipelineFeatures, failing \in Failures :
          LET group         == grouped[gi]
              speaker_turns == [k \in 1..Len(group.idxs) |-> turns[group.idxs[k]]]
              texts         == [k \in 1..Len(speaker_turns) |-> speaker_turns[k].text]
              stats         == Stats(speaker_turns)
              scores        == Analyze(texts, features)
              names         == InferNames(texts)
              made          == ProfileCalls(group.label)
              Raise(n, exception, op) ==
                  /\ calls' = calls \o SubSeq(made, 1, n)
                  /\ p_exc' = Some(Exception(exception, op, group.label))
                  /\ p_pc' = ExceptionTarget
                  /\ UNCHANGED <<turns, all_profiles, gi>>
          IN  IF failing = "extract_features"
              THEN Raise(1, "CollaboratorError", failing)
              ELSE IF failing = "analyze"
              THEN Raise(2, "CollaboratorError", failing)
              ELSE IF names.raised
              THEN Raise(2, "IndexError", "_infer_names")
              ELSE IF failing = "get_all_speakers"
              THEN Raise(3, "CollaboratorError", failing)
              ELSE LET profile == SpeakerProfile(group.label, features, stats,
                                                 scores, names.value)
                       match   == MatchSpeaker(db, profile.features, team_members)
                   IN  /\ turns' = NameTurns(turns, group.idxs, match)
                       /\ all_profiles' = Append(all_profiles, ApplyMatch(profile, match))
                       /\ gi' = gi + 1
                       /\ calls' = calls \o made
                       /\ p_pc' = "loop"
                       /\ UNCHANGED p_exc
    /\ UNCHANGED <<turns0, grouped, outputs, persist,
                   dzVars, storeVars, mVars, xVars, nVars>>

\* _build_profiles: return all_profiles
BuildReturn ==
    /\ p_pc = "loop"
    /\ gi > Len(grouped)
    /\ p_pc' = "built"
    /\ UNCHANGED <<turns, turns0, grouped, all_profiles, gi, outputs, calls,
                   p_exc, persist, dzVars, storeVars, mVars, xVars, nVars>>

\* process: _write_transcript(turns, audio_path)
WriteTranscript ==
    /\ p_pc = "built"
    /\ outputs' = Append(outputs, "transcript")
    /\ p_pc' = "written"
    /\ UNCHANGED <<turns, turns0, grouped, all_profiles, gi, calls, p_exc,
                   persist, dzVars, storeVars, mVars, xVars, nVars>>

\* process: _write_report(profiles, audio_path) and return ProcessedMeeting
WriteReport ==
    /\ p_pc = "written"
    /\ outputs' = Append(outputs, "report")
    /\ p_pc' = "done"
    /\ UNCHANGED <<turns, turns0, grouped, all_profiles, gi, calls, p_exc,
                   persist, dzVars, storeVars, mVars, xVars, nVars>>

\* the caller registers a profile of the meeting: save_profile(name, profile)
SaveProfile ==
    /\ p_pc = "done"
    /\ \E name \in Names, p \in 1..Len(all_profiles) :
          LET profile == all_profiles[p]
          IN  /\ db' = AddSpeaker(db, name, profile.features, profile.stats,
                                  profile.psychometrics, None)
              /\ persist' = Some(PersistCall("save_profile", name,
                                             NextRowId(db), profile))
    /\ p_pc' = "saved"
    /\ UNCHANGED <<team_members, turns, turns0, grouped, all_profiles, gi,
                   outputs, calls, p_exc, dzVars, mVars, xVars, nVars>>

\* the caller refreshes a record: update_profile(speaker_id, profile)
UpdateProfile ==
    /\ p_pc = "done"
    /\ \E speaker_id \in 1..(Len(db) + 1), p \in 1..Len(all_profiles) :
          LET profile == all_profiles[p]
          IN  /\ db' = UpdateSpeaker(db, speaker_id, profile.features,
                                     profile.stats, profile.psychometrics, None)
              /\ persist' = Some(PersistCall("update_profile", "",
                                             speaker_id, profile))
    /\ p_pc' = "updated"
    /\ UNCHANGED <<team_members, turns, turns0, grouped, all_profiles, gi,
                   outputs, calls, p_exc, dzVars, mVars, xVars, nVars>>

\* a later _match_speaker call, on a profile carrying the features of the
\* profile the caller has registered
MatchLater ==
    /\ p_pc = "saved"
    /\ m_pc = "idle"
    /\ \E team \in PipelineTeams :
          LET features == Get(persist).profile.features
          IN  /\ team_members' = team
              /\ m_features' = Some(features)
              /\ m_result' = MatchSpeaker(db, features, team)
    /\ m_pc' = "done"
    /\ UNCHANGED <<db, dzVars, xVars, pVars, nVars>>

Next ==
    \/ BuildGroups \/ BuildProfile \/ BuildReturn \/ WriteTranscript
    \/ WriteReport \/ SaveProfile \/ UpdateProfile \/ MatchLater

Spec == ProcessInit /\ [][Next]_vars

(***************************************************************************)
(* SimpleEnergyDiarizer                                                    *)
(***************************************************************************)
\* utterance spans the transcriber may hand over: short, long, zero-length
\* and inverted (end < start) ones
Spans == { <<0, 5>>, <<5, 10>>, <<10, 16>>, <<0, 20>>, <<20, 20>>,
           <<10, 5>>, <<0, 15>>, <<16, 40>> }

\* values of the constructor's max_duration argument; 0 stands for both
\* falsy arguments, None and 0.0
MaxDurationArgs == { 0, 10 }

\* __init__: self.max_duration = max_duration or config.MAX_SEGMENT_DURATION
InitMaxDuration(arg) ==
    IF arg = 0 THEN MAX_SEGMENT_DURATION ELSE arg

\* duration = max(0.0, end - start)
Duration(start, end) == Max(0, end - start)

\* f"Speaker {chr(ord('A') + idx)}": a label is represented by its code point
SpeakerLabel(cp) == cp

\* mutant: the generator starts over at "A" after "Z"
NextSpeakerWrapping(idx) == OrdA + (idx % Len(UpperChars))

\* chr(ord("A") + idx), the value next(speaker_cycle) yields for idx
NextSpeaker(idx) == OrdA + idx

\* mutant: the segment built with start and end exchanged
DiarizationSegmentSwapped(start, end, label) ==
    [start |-> end, end |-> start, speaker_label |-> label,
     confidence |-> DefaultConfidence]

\* DiarizationSegment(start=start, end=end, speaker_label=...)
DiarizationSegment(start, end, label) ==
    [start |-> start, end |-> end, speaker_label |-> label,
     confidence |-> DefaultConfidence]

\* the first branch: duration > self.max_duration and len(segments) > 0
LongUtterance(duration, maxd, segs) == duration > maxd /\ Len(segs) > 0

\* mutant: the elif fires at half of max_duration
TotalReachedEarly(total, maxd) == 2 * total >= maxd

\* mutant: the elif fires at twice max_duration
TotalReachedLate(total, maxd) == total >= 2 * maxd

\* mutant: the elif compares strictly
TotalReachedStrict(total, maxd) == total > maxd

\* the elif: total_duration >= self.max_duration
TotalReached(total, maxd) == total >= maxd

\* total_duration = 0.0 in the elif branch
ResetTotal(total) == 0

\* mutant: the first branch resets the accumulator as the elif does
LongTotalReset(total) == 0

\* the first branch leaves total_duration as accumulated
LongTotal(total) == total

\* the same utterance n times over, for n up to MaxRepeats
RepeatedUtterances ==
    { [i \in 1..n |-> span] : n \in (MaxUtterances + 1)..MaxRepeats,
                              span \in { <<0, 15>>, <<0, 5>> } }

DiarizeInit ==
    /\ timestamps \in SeqsUpTo(Spans, MaxUtterances) \cup RepeatedUtterances
    /\ \E arg \in MaxDurationArgs : max_duration = InitMaxDuration(arg)
    /\ segments = <<>>
    /\ speaker_cycle = 0
    /\ current_speaker = 0
    /\ total_duration = 0
    /\ pos = 1
    /\ dz_pc = "call"
    /\ db = <<>> /\ team_members = None
    /\ m_features = None /\ m_result = None /\ m_pc = "idle"
    /\ x_texts = <<>> /\ x_start = 0 /\ x_end = 0 /\ x_result = None
    /\ x_pc = "idle"
    /\ turns = <<>> /\ turns0 = <<>> /\ grouped = <<>> /\ all_profiles = <<>>
    /\ gi = 1 /\ outputs = <<>> /\ p_pc = "idle"
    /\ calls = <<>> /\ p_exc = None /\ persist = None
    /\ n_texts = <<>> /\ n_result = None /\ n_pc = "idle"

\* if not timestamps: return []
DiarizeEmpty ==
    /\ dz_pc = "call"
    /\ timestamps = <<>>
    /\ dz_pc' = "done"
    /\ UNCHANGED <<timestamps, max_duration, segments, speaker_cycle,
                   current_speaker, total_duration, pos>>
    /\ UNCHANGED <<storeVars, mVars, xVars, pVars, nVars>>

\* segments = []; current_speaker = next(speaker_cycle); total_duration = 0.0
DiarizeEnter ==
    /\ dz_pc = "call"
    /\ timestamps # <<>>
    /\ segments' = <<>>
    /\ current_speaker' = NextSpeaker(speaker_cycle)
    /\ speaker_cycle' = speaker_cycle + 1
    /\ total_duration' = 0
    /\ pos' = 1
    /\ dz_pc' = "loop"
    /\ UNCHANGED <<timestamps, max_duration>>
    /\ UNCHANGED <<storeVars, mVars, xVars, pVars, nVars>>

\* one iteration of "for start, end in timestamps"
DiarizeStep ==
    /\ dz_pc = "loop"
    /\ pos <= Len(timestamps)
    /\ LET start    == timestamps[pos][1]
           end      == timestamps[pos][2]
           duration == Duration(start, end)
           total    == total_duration + duration
           long     == LongUtterance(duration, max_duration, segments)
           reached  == ~long /\ TotalReached(total, max_duration)
           advance  == long \/ reached
           speaker  == IF advance THEN NextSpeaker(speaker_cycle) ELSE current_speaker
       IN  /\ current_speaker' = speaker
           /\ speaker_cycle' = IF advance THEN speaker_cycle + 1 ELSE speaker_cycle
           /\ total_duration' = IF reached THEN ResetTotal(total)
                                 ELSE IF long THEN LongTotal(total) ELSE total
           /\ segments' = Append(segments,
                                 DiarizationSegment(start, end, SpeakerLabel(speaker)))
    /\ pos' = pos + 1
    /\ UNCHANGED <<timestamps, max_duration, dz_pc>>
    /\ UNCHANGED <<storeVars, mVars, xVars, pVars, nVars>>

\* return segments
DiarizeReturn ==
    /\ dz_pc = "loop"
    /\ pos > Len(timestamps)
    /\ dz_pc' = "done"
    /\ UNCHANGED <<timestamps, max_duration, segments, speaker_cycle,
                   current_speaker, total_duration, pos>>
    /\ UNCHANGED <<storeVars, mVars, xVars, pVars, nVars>>

DiarizeNext == DiarizeEmpty \/ DiarizeEnter \/ DiarizeStep \/ DiarizeReturn

SpecDiarize == DiarizeInit /\ [][DiarizeNext]_vars

(***************************************************************************)
(* Properties of diarize, stated for SpecDiarize.                           *)
(***************************************************************************)
RECURSIVE SumDurations(_, _)
\* sum of the durations of the first k utterances of ts
SumDurations(ts, k) ==
    IF k = 0 THEN 0
    ELSE SumDurations(ts, k - 1) + Duration(ts[k][1], ts[k][2])

Labels(segs) == [i \in 1..Len(segs) |-> segs[i].speaker_label]

ExampleUtterances == << <<0, 5>>, <<5, 10>>, <<10, 16>> >>

\* C1: diarize returns exactly one segment per utterance, in input order,
\* the i-th segment carrying the i-th utterance's start and end unchanged;
\* for the empty input it returns the empty sequence.
C1_OneSegmentPerUtterance ==
    dz_pc = "done" =>
        /\ Len(segments) = Len(timestamps)
        /\ \A i \in 1..Len(timestamps) :
              /\ segments[i].start = timestamps[i][1]
              /\ segments[i].end = timestamps[i][2]
        /\ (timestamps = <<>> => segments = <<>>)

\* C1 witness: a returned call on three utterances with distinct spans
C1_Witness ==
    /\ dz_pc = "done"
    /\ timestamps = ExampleUtterances
    /\ Len(segments) = 3

\* C2: if every utterance's duration is below max_duration and the running
\* sum of durations never reaches max_duration, all emitted segments carry
\* the same label.
C2_ShortInputOneLabel ==
    (/\ dz_pc = "done"
     /\ \A i \in 1..Len(timestamps) :
           /\ Duration(timestamps[i][1], timestamps[i][2]) < max_duration
           /\ SumDurations(timestamps, i) < max_duration)
    => \A i, j \in 1..Len(segments) :
           segments[i].speaker_label = segments[j].speaker_label

\* C2 witness: a returned call on several utterances whose durations sum to
\* a positive value below max_duration
C2_Witness ==
    /\ dz_pc = "done"
    /\ Len(timestamps) >= 2
    /\ SumDurations(timestamps, Len(timestamps)) >= 10
    /\ \A i \in 1..Len(timestamps) :
          SumDurations(timestamps, i) < max_duration
    /\ \A i \in 1..Len(segments) : segments[i].speaker_label = OrdA

\* C3: when the first utterance is longer than max_duration no label switch
\* happens on it: the first segment carries the initial label A.
C3_FirstLongKeepsInitialLabel ==
    (/\ dz_pc = "done"
     /\ Len(timestamps) >= 1
     /\ Duration(timestamps[1][1], timestamps[1][2]) > max_duration)
    => segments[1].speaker_label = SpeakerLabel(OrdA)

\* an iteration of the loop over an utterance that does not take the
\* long-utterance branch: the label advances iff the accumulated duration,
\* this utterance included, is >= max_duration; on an advance the accumulator
\* is reset and the utterance itself gets the new label
C4_Step ==
    (/\ dz_pc = "loop"
     /\ pos <= Len(timestamps)
     /\ pos' = pos + 1)
    => LET d   == Duration(timestamps[pos][1], timestamps[pos][2])
           acc == total_duration + d
       IN  (d <= max_duration \/ pos = 1) =>
             /\ (acc >= max_duration) <=> (current_speaker' = current_speaker + 1)
             /\ (acc < max_duration) <=> (current_speaker' = current_speaker)
             /\ (acc >= max_duration) => total_duration' = 0
             /\ (acc < max_duration) => total_duration' = acc
             /\ segments'[pos].speaker_label = current_speaker'

\* the example of the claim
C4_Example ==
    (dz_pc = "done" /\ timestamps = ExampleUtterances
        /\ max_duration = MAX_SEGMENT_DURATION)
    => Labels(segments) = <<OrdA, OrdA, OrdA + 1>>

\* C4: for an utterance that does not take the long-utterance branch (its
\* duration is <= max_duration, or it is the first utterance) the label
\* advances by exactly one step iff the duration accumulated since the last
\* reset, this utterance included, is >= max_duration; when it advances the
\* accumulator is reset to 0 and the triggering utterance receives the new
\* label; [(0,5),(5,10),(10,16)] with max_duration 15 gives A, A, B.
C4_AdvanceIffAccumulated == [](C4_Example) /\ [][C4_Step]_vars

\* C4 witness: the example returned with labels A, A, B and the accumulator
\* reset by the third utterance
C4_Witness ==
    /\ dz_pc = "done"
    /\ timestamps = ExampleUtterances
    /\ max_duration = MAX_SEGMENT_DURATION
    /\ Labels(segments) = <<OrdA, OrdA, OrdA + 1>>
    /\ total_duration = 0

\* the duration diarize computed for a segment
SegmentDuration(seg) == Duration(seg.start, seg.end)

\* sum of the durations of segments a..b (0 when a > b)
RunDuration(segs, a, b) ==
    IF a > b THEN 0
    ELSE SumSeq([i \in 1..(b - a + 1) |-> SegmentDuration(segs[a + i - 1])],
                b - a + 1)

\* the maximal runs <<a, b>> of consecutive segments sharing a label
MaximalRuns(segs) ==
    { r \in (1..Len(segs)) \X (1..Len(segs)) :
        /\ r[1] <= r[2]
        /\ \A k \in r[1]..r[2] : segs[k].speaker_label = segs[r[1]].speaker_label
        /\ (r[1] = 1 \/ segs[r[1] - 1].speaker_label # segs[r[1]].speaker_label)
        /\ (r[2] = Len(segs)
              \/ segs[r[2] + 1].speaker_label # segs[r[1]].speaker_label) }

\* C14 as stated: for every maximal run of two or more consecutive segments
\* sharing a label, the sum of the durations of the run's segments is below
\* max_duration.
C14_RunBelowMaxDuration ==
    dz_pc = "done" =>
        \A r \in MaximalRuns(segments) :
            r[1] < r[2] => RunDuration(segments, r[1], r[2]) < max_duration

\* C14 amended: for every maximal run of two or more consecutive segments
\* sharing a label, the sum of the durations of the run's segments, not
\* counting a first segment whose utterance switched to the run's label, is
\* below max_duration (a run that carries the initial label A is counted in
\* full).
C14_RunAfterSwitchBelowMaxDuration ==
    dz_pc = "done" =>
        \A r \in MaximalRuns(segments) :
            r[1] < r[2] =>
                IF segments[r[1]].speaker_label = SpeakerLabel(OrdA)
                THEN RunDuration(segments, r[1], r[2]) < max_duration
                ELSE RunDuration(segments, r[1] + 1, r[2]) < max_duration

\* C14 witness: a run of three segments under a label other than A whose
\* first segment alone is as long as max_duration
C14_Witness ==
    /\ dz_pc = "done"
    /\ \E r \in MaximalRuns(segments) :
          /\ r[2] = r[1] + 2
          /\ segments[r[1]].speaker_label # SpeakerLabel(OrdA)
          /\ SegmentDuration(segments[r[1]]) >= max_duration
          /\ RunDuration(segments, r[1] + 1, r[2]) > 0

\* C15: every label emitted by diarize belongs to the alphabetic sequence
\* A, B, C, ...: however many times the label advances within one call
\* (more than 25 advances included), the label is one of the letters A-Z.
C15_LabelsAreLetters ==
    \A i \in 1..Len(segments) :
        \E k \in 1..Len(UpperChars) :
            segments[i].speaker_label = SpeakerLabel(OrdA + k - 1)

\* C16: within one diarize call the label index is non-decreasing along the
\* output and grows by at most one per utterance, so a label once left is
\* never assigned again and the segments sharing a label form one contiguous
\* run.
C16_LabelsNeverGoBack ==
    /\ Len(segments) >= 1 =>
          segments[1].speaker_label - SpeakerLabel(OrdA) \in { 0, 1 }
    /\ \A i \in 1..(Len(segments) - 1) :
          segments[i + 1].speaker_label - segments[i].speaker_label \in { 0, 1 }
    /\ \A i, k \in 1..Len(segments) :
          (i < k /\ segments[i].speaker_label = segments[k].speaker_label)
          => \A j \in i..k : segments[j].speaker_label = segments[i].speaker_label

\* C16 witness: a returned call whose label has advanced more often than
\* there are letters, every segment carrying a label of its own
C16_Witness ==
    /\ dz_pc = "done"
    /\ Len(segments) > Len(UpperChars)
    /\ segments[Len(segments)].speaker_label >= SpeakerLabel(OrdA + Len(UpperChars))
    /\ \A i \in 1..(Len(segments) - 1) :
          segments[i + 1].speaker_label = segments[i].speaker_label + 1

\* C19: a label assigned by the long-utterance branch (utterance duration >
\* max_duration with at least one segment already emitted) labels exactly
\* that one segment: the utterance gets a new label and the next utterance,
\* whatever its duration, advances the label again.
C19_LongLabelOwnsOneSegment ==
    \A i \in 2..Len(segments) :
        SegmentDuration(segments[i]) > max_duration =>
            /\ segments[i].speaker_label = segments[i - 1].speaker_label + 1
            /\ i < Len(segments) =>
                  segments[i + 1].speaker_label = segments[i].speaker_label + 1

\* C19 witness: a long utterance that is not the first is followed by an
\* utterance of duration 0, and the three segments around it carry three
\* successive labels
C19_Witness ==
    /\ dz_pc = "done"
    /\ \E i \in 2..(Len(segments) - 1) :
          /\ SegmentDuration(segments[i]) > max_duration
          /\ SegmentDuration(segments[i + 1]) = 0
          /\ segments[i].speaker_label = segments[i - 1].speaker_label + 1
          /\ segments[i + 1].speaker_label = segments[i].speaker_label + 1

(***************************************************************************)
(* Properties of _match_speaker, stated for SpecMatch.                     *)
(***************************************************************************)
\* the similarity of the matched profile with the i-th row of the store
CandidateScore(i) ==
    CosineSimilarity(Vectorize(Get(m_features)), Vectorize(db[i].feature_vector))

\* a similarity of at least 0.82, i.e. dot > 0 and dot^2 / nn >= 0.6724
AtLeastThreshold(s) == s.dot > 0 /\ s.dot * s.dot * 10000 >= 6724 * s.nn

\* the i-th row passes the allow-list: none given, an empty one, or the
\* row's name is a member
Eligible(i) ==
    \/ IsNone(team_members)
    \/ Get(team_members) = <<>>
    \/ InList(db[i].name, Get(team_members))

EligibleRows == { i \in 1..Len(db) : Eligible(i) }

\* C7: match never returns a candidate whose similarity is below 0.82; when
\* some eligible candidate scores >= 0.82 it returns a candidate with the
\* maximum score among the eligible ones, the earliest in store order among
\* those with that score; when none does (the empty store included) it
\* returns no match.
C7_BestAboveThreshold ==
    m_pc = "done" =>
        IF \E i \in EligibleRows : AtLeastThreshold(CandidateScore(i))
        THEN /\ ~IsNone(m_result)
             /\ \E i \in EligibleRows :
                   /\ Get(m_result).speaker_id = db[i].id
                   /\ Get(m_result).speaker_name = db[i].name
                   /\ Get(m_result).score = CandidateScore(i)
                   /\ AtLeastThreshold(CandidateScore(i))
                   /\ \A j \in EligibleRows :
                         ~ScoreGT(CandidateScore(j), CandidateScore(i))
                   /\ \A j \in EligibleRows :
                         j < i => ScoreGT(CandidateScore(i), CandidateScore(j))
        ELSE IsNone(m_result)

\* C7 witness: two eligible rows tie at the maximum score, a third eligible
\* row scores below the threshold, and the earlier of the two is returned
C7_Witness ==
    /\ m_pc = "done"
    /\ ~IsNone(m_result)
    /\ \E i, j, k \in EligibleRows :
          /\ i < j
          /\ Get(m_result).speaker_id = db[i].id
          /\ ScoreEQ(CandidateScore(i), CandidateScore(j))
          /\ k < i
          /\ CandidateScore(k).dot > 0
          /\ ~AtLeastThreshold(CandidateScore(k))

\* C8 as stated: whenever an allow_list is provided, the empty list
\* included, the returned match, if any, has a name that is a member of it
\* (so a provided empty allow_list yields no match).
C8_AnyProvidedListFilters ==
    (m_pc = "done" /\ ~IsNone(team_members)) =>
        \/ IsNone(m_result)
        \/ InList(Get(m_result).speaker_name, Get(team_members))

\* C8 amended: whenever a non-empty allow_list is provided, every candidate
\* whose name is not a member is skipped, so the returned match, if any, has
\* a name that is a member; a provided empty allow_list filters nothing: a
\* match is returned as soon as some row of the store scores >= 0.82.
C8_NonEmptyListFilters ==
    m_pc = "done" =>
        /\ (~IsNone(team_members) /\ Get(team_members) # <<>>) =>
              \/ IsNone(m_result)
              \/ InList(Get(m_result).speaker_name, Get(team_members))
        /\ (team_members = Some(<<>>)
              /\ \E i \in 1..Len(db) : AtLeastThreshold(CandidateScore(i)))
           => ~IsNone(m_result)

\* C8 witness: with allow-list ["al"] a row named "bo" scores above the
\* threshold and strictly better than the returned row, which is named "al"
C8_Witness ==
    /\ m_pc = "done"
    /\ team_members = Some(<<"al">>)
    /\ ~IsNone(m_result)
    /\ Get(m_result).speaker_name = "al"
    /\ \E i \in 1..Len(db) :
          /\ db[i].name = "bo"
          /\ ScoreGT(CandidateScore(i), Get(m_result).score)

(***************************************************************************)
(* Properties of extract_features, stated for SpecExtract.                 *)
(***************************************************************************)
\* C10: for every span whose duration (end - start) is <= 0 and any texts,
\* the FeatureSet returned by extract_features has speaking_rate 0.0.
C10_ZeroRateForEmptySpan ==
    (x_pc = "done" /\ x_end - x_start <= 0)
    => IsZero(Get(x_result).speaking_rate)

(***************************************************************************)
(* Properties of process and _build_profiles, stated for Spec.             *)
(***************************************************************************)
ProfilesBuilt == p_pc \in { "built", "written", "done" }

\* the turns (as transcribe returned them) carrying a label
TurnsOf(label) == { k \in 1..Len(turns0) : turns0[k].speaker_label = label }

\* position of the first turn carrying a label
FirstTurnOf(label) ==
    CHOOSE k \in TurnsOf(label) : \A j \in TurnsOf(label) : k <= j

\* C5: profile building returns exactly one profile per distinct
\* speaker_label, ordered by each label's first appearance among the turns,
\* and each profile's stats.turn_count is the number of turns carrying its
\* label (so the turn counts sum to the number of turns).
C5_OneProfilePerLabel ==
    ProfilesBuilt =>
        /\ { all_profiles[i].speaker_label : i \in 1..Len(all_profiles) }
             = { turns0[k].speaker_label : k \in 1..Len(turns0) }
        /\ \A i, j \in 1..Len(all_profiles) :
              i < j => FirstTurnOf(all_profiles[i].speaker_label)
                         < FirstTurnOf(all_profiles[j].speaker_label)
        /\ \A i \in 1..Len(all_profiles) :
              all_profiles[i].stats.turn_count
                = Cardinality(TurnsOf(all_profiles[i].speaker_label))
        /\ SumSeq([i \in 1..Len(all_profiles) |-> all_profiles[i].stats.turn_count],
                  Len(all_profiles)) = Len(turns0)

\* C5 witness: turns labelled B, A, B give the profiles B (2 turns), A (1 turn)
C5_Witness ==
    /\ p_pc = "done"
    /\ [k \in 1..Len(turns0) |-> turns0[k].speaker_label]
          = <<OrdA + 1, OrdA, OrdA + 1>>
    /\ Len(all_profiles) = 2
    /\ all_profiles[1].speaker_label = OrdA + 1
    /\ all_profiles[1].stats.turn_count = 2
    /\ all_profiles[2].speaker_label = OrdA
    /\ all_profiles[2].stats.turn_count = 1

\* C6: the inferred_names list of a profile never contains the same name
\* twice, including when several turns (or several phrases in one turn)
\* introduce the same name.
C6_InferredNamesDistinct ==
    \A p \in 1..Len(all_profiles) :
        LET names == all_profiles[p].inferred_names
        IN  \A i, j \in 1..Len(names) : names[i] = names[j] => i = j

\* C9: after profile building and matching, for every profile
\* matched_speaker_id and matched_speaker_name are both set or both unset;
\* when set, every turn carrying the profile's label has speaker_name equal
\* to matched_speaker_name; when unset, every turn of that label keeps
\* speaker_name unset; no other field of any turn is modified.
C9_MatchWrittenConsistently ==
    ProfilesBuilt =>
        /\ \A p \in 1..Len(all_profiles) :
              LET profile == all_profiles[p]
              IN  /\ IsNone(profile.matched_speaker_id)
                        <=> IsNone(profile.matched_speaker_name)
                  /\ \A k \in TurnsOf(profile.speaker_label) :
                        turns[k].speaker_name = profile.matched_speaker_name
        /\ Len(turns) = Len(turns0)
        /\ \A k \in 1..Len(turns) :
              [turns[k] EXCEPT !.speaker_name = None] = turns0[k]

\* C9 witness: a run in which one profile with two turns is matched and
\* another profile is not
C9_Witness ==
    /\ p_pc = "done"
    /\ \E p, q \in 1..Len(all_profiles) :
          /\ ~IsNone(all_profiles[p].matched_speaker_id)
          /\ Cardinality(TurnsOf(all_profiles[p].speaker_label)) = 2
          /\ \A k \in TurnsOf(all_profiles[p].speaker_label) :
                turns[k].speaker_name = Some("bo")
          /\ IsNone(all_profiles[q].matched_speaker_name)
          /\ \A k \in TurnsOf(all_profiles[q].speaker_label) :
                IsNone(turns[k].speaker_name)

(***************************************************************************)
(* Properties of the collaborator calls and of persistence, for Spec.      *)
(***************************************************************************)
\* the positions of the calls of a collaborator operation in the log
CallsAt(op) == { j \in 1..Len(calls) : calls[j].op = op }

\* the positions of the store reads made for a label
ReadsOf(label) ==
    { j \in 1..Len(calls) : calls[j] = Call("get_all_speakers", label) }

\* C11 as stated: every feature-aggregation and psychometric-scoring call,
\* for every speaker label, happens before the first read of the profile
\* store, and the store is then read exactly once per profile.
C11_BuilderBeforeMatcher ==
    /\ \A i, j \in 1..Len(calls) :
          (/\ calls[i].op \in { "extract_features", "analyze" }
           /\ calls[j].op = "get_all_speakers") => i < j
    /\ \A p \in 1..Len(all_profiles) :
          Cardinality(ReadsOf(all_profiles[p].speaker_label)) = 1

\* C11 amended: in one process run ProfileBuilder and IdentityMatcher
\* alternate label by label: for each speaker label, in order of first
\* appearance, its feature-aggregation call, then its psychometric-scoring
\* call, then one read of the profile store happen before any call for the
\* next label; no call is repeated and the store is read exactly once per
\* profile.
C11_BuilderThenMatcherPerLabel ==
    /\ \A j \in CallsAt("get_all_speakers") :
          /\ j >= 3
          /\ calls[j - 2] = Call("extract_features", calls[j].label)
          /\ calls[j - 1] = Call("analyze", calls[j].label)
    /\ \A j \in CallsAt("analyze") :
          /\ j >= 2
          /\ calls[j - 1] = Call("extract_features", calls[j].label)
    /\ \A i, j \in 1..Len(calls) : i < j => calls[i] # calls[j]
    /\ \A i, j \in 1..Len(calls) :
          (i < j /\ calls[i].label # calls[j].label)
          => /\ FirstTurnOf(calls[i].label) < FirstTurnOf(calls[j].label)
             /\ calls[i].op = "get_all_speakers" \/ \E k \in (i + 1)..(j - 1) :
                   calls[k] = Call("get_all_speakers", calls[i].label)
    /\ \A p \in 1..Len(all_profiles) :
          Cardinality(ReadsOf(all_profiles[p].speaker_label)) = 1
    /\ ProfilesBuilt =>
          Cardinality(CallsAt("get_all_speakers")) = Len(all_profiles)

\* C11 witness: a finished run over two labels in which the store is read for
\* the first label before the features of the second are aggregated
C11_Witness ==
    /\ p_pc = "done"
    /\ Len(all_profiles) = 2
    /\ Len(calls) = 6
    /\ calls[3] = Call("get_all_speakers", all_profiles[1].speaker_label)
    /\ calls[4] = Call("extract_features", all_profiles[2].speaker_label)
    /\ calls[6] = Call("get_all_speakers", all_profiles[2].speaker_label)

\* process is running: called and neither returned nor left by an exception
ProcessRunning == p_pc \in { "call", "loop", "built", "written" }

\* a step of process leaves the store alone; a save_profile step appends
\* exactly one record, carrying the given name and the profile's features,
\* stats and psychometrics; an update_profile step changes no record but the
\* one with the given id, which gets the profile's features, stats and
\* psychometrics and keeps its id and name
C12_Step ==
    /\ ProcessRunning => db' = db
    /\ (p_pc = "done" /\ p_pc' = "saved") =>
          LET c == Get(persist')
          IN  /\ c.op = "save_profile"
              /\ Len(db') = Len(db) + 1
              /\ SubSeq(db', 1, Len(db)) = db
              /\ db'[Len(db')].id = c.speaker_id
              /\ \A i \in 1..Len(db) : db[i].id # c.speaker_id
              /\ db'[Len(db')].name = c.name
              /\ db'[Len(db')].feature_vector = c.profile.features
              /\ db'[Len(db')].stats = c.profile.stats
              /\ db'[Len(db')].psychometrics = c.profile.psychometrics
    /\ (p_pc = "done" /\ p_pc' = "updated") =>
          LET c == Get(persist')
          IN  /\ c.op = "update_profile"
              /\ Len(db') = Len(db)
              /\ Cardinality({ i \in 1..Len(db) : db'[i] # db[i] }) <= 1
              /\ \A i \in 1..Len(db) :
                    IF db[i].id = c.speaker_id
                    THEN /\ db'[i].id = db[i].id
                         /\ db'[i].name = db[i].name
                         /\ db'[i].feature_vector = c.profile.features
                         /\ db'[i].stats = c.profile.stats
                         /\ db'[i].psychometrics = c.profile.psychometrics
                    ELSE db'[i] = db[i]

\* C12: process never writes to the profile store: for any turns and any
\* match outcome the store holds the same records after process as before;
\* the store is written only by save_profile (exactly one add with the
\* profile's features, stats and psychometrics) and by update_profile
\* (exactly one update of the given id).
C12_ProcessNeverWrites == [][C12_Step]_vars

\* C12 witness: after a run that matched a profile against the store, the
\* caller has saved that profile and the store holds one record more
C12_Witness ==
    /\ p_pc = "saved"
    /\ Len(db) = 3
    /\ ~IsNone(Get(persist).profile.matched_speaker_id)
    /\ db[3].stats = Get(persist).profile.stats
    /\ db[3].stats.turn_count = 2

(***************************************************************************)
(* Properties of failures and of persistence, stated for Spec.             *)
(***************************************************************************)
\* a phrase occurs in the text and only whitespace follows its first occurrence
TrailingPhrase(text) ==
    \E i \in 1..Len(Keywords) :
        /\ StrContains(StrLower(text), Keywords[i])
        /\ StrSplit(StrStrip(AfterFirst(StrLower(text), Keywords[i]))) = <<>>

\* C17: when a turn's text contains one of the name phrases but nothing
\* other than whitespace follows its first occurrence, name inference adds
\* no name for that phrase and profile building completes normally without
\* raising an error.
C17_TrailingPhraseAddsNoName ==
    \A k \in 1..Len(turns0) :
        TrailingPhrase(turns0[k].text) =>
            ~(/\ p_pc = "raised"
              /\ ~IsNone(p_exc)
              /\ Get(p_exc).exception = "IndexError"
              /\ Get(p_exc).label = turns0[k].speaker_label)

\* a collaborator call has failed
CollaboratorFailed ==
    ~IsNone(p_exc) /\ Get(p_exc).exception = "CollaboratorError"

\* after a collaborator failure: the exception has left process, the failing
\* call is the last one made and was made once, the profiles built are those
\* of the labels before the failing one, no call was made for a later label,
\* the turns of the failing and the later labels are untouched and no file
\* has been written
C18_Failed ==
    CollaboratorFailed =>
        LET e == Get(p_exc)
        IN  /\ p_pc = "raised"
            /\ outputs = <<>>
            /\ calls # <<>>
            /\ calls[Len(calls)] = Call(e.op, e.label)
            /\ Cardinality({ j \in 1..Len(calls) : calls[j] = Call(e.op, e.label) }) = 1
            /\ gi <= Len(grouped)
            /\ grouped[gi].label = e.label
            /\ Len(all_profiles) = gi - 1
            /\ \A p \in 1..Len(all_profiles) :
                  all_profiles[p].speaker_label = grouped[p].label
            /\ \A j \in 1..Len(calls) :
                  \E g \in 1..gi : calls[j].label = grouped[g].label
            /\ \A g \in gi..Len(grouped) :
                  \A k \in TurnsOf(grouped[g].label) : turns[k] = turns0[k]

\* once an exception has left process nothing more happens in the run
C18_Stopped == p_pc = "raised" => (UNCHANGED pVars /\ UNCHANGED db)

\* C18: if a collaborator call fails during process (store read, feature
\* extraction or psychometric scoring for any speaker label), the failure
\* reaches the caller of process, the failing call is not retried, no
\* remaining speaker label is processed or silently skipped into a result,
\* and neither the transcript nor the report is written.
C18_FailurePropagates == [](C18_Failed) /\ [][C18_Stopped]_vars

\* C18 witness: the store read fails for the second label after the first
\* label's profile has been built
C18_Witness ==
    /\ p_pc = "raised"
    /\ CollaboratorFailed
    /\ Get(p_exc).op = "get_all_speakers"
    /\ gi = 2
    /\ Len(grouped) = 2
    /\ Len(all_profiles) = 1
    /\ outputs = <<>>

\* the row of the store the caller's save_profile call has added
SavedRow == CHOOSE i \in 1..Len(db) : db[i].id = Get(persist).speaker_id

\* C20: after save_profile(name, p) for a profile p with a non-zero feature
\* vector, any later matching of a profile with the same features, with no
\* allow_list or with an allow_list containing name, returns a match (score
\* >= 0.82); the matched record is the saved one unless a record earlier in
\* store order has an equal similarity.
C20_SavedProfileMatches ==
    (/\ p_pc = "saved"
     /\ m_pc = "done"
     /\ Get(m_features) = Get(persist).profile.features
     /\ Dot(Vectorize(Get(m_features)), Vectorize(Get(m_features))) # 0
     /\ \/ IsNone(team_members)
        \/ InList(Get(persist).name, Get(team_members)))
    => /\ ~IsNone(m_result)
       /\ AtLeastThreshold(Get(m_result).score)
       /\ \/ Get(m_result).speaker_id = Get(persist).speaker_id
          \/ \E i \in 1..(SavedRow - 1) :
                /\ Get(m_result).speaker_id = db[i].id
                /\ ScoreEQ(CandidateScore(i), CandidateScore(SavedRow))

\* C20 witness: with allow-list ["bo"] the record just saved under the name
\* "bo" is returned although an earlier record named "bo" also scores above
\* the threshold
C20_Witness ==
    /\ p_pc = "saved"
    /\ m_pc = "done"
    /\ team_members = Some(<<"bo">>)
    /\ Get(persist).name = "bo"
    /\ Get(m_features) = Get(persist).profile.features
    /\ ~IsNone(m_result)
    /\ Get(m_result).speaker_id = Get(persist).speaker_id
    /\ \E i \in 1..(SavedRow - 1) :
          /\ db[i].name = "bo"
          /\ AtLeastThreshold(CandidateScore(i))

====
